---- MODULE Spec2Model ----
(***************************************************************************)
(* Model of simplify (src/src/lib.rs): the balance aggregation over the    *)
(* transactions, the construction of the balance-sorted BTreeMap from the  *)
(* HashMap of balances, and the settlement loop that pops the smallest and *)
(* the largest balance and emits one Debt per iteration.                   *)
(*                                                                         *)
(* CurrencyUnit is i64.  Every amount of the model stays far inside the    *)
(* i64 range (and inside TLC's integers), so no addition of the model      *)
(* overflows; what the code does on overflow is outside this model.        *)
(***************************************************************************)
EXTENDS Integers, Sequences, FiniteSets, TLC

\* ------------------------------------------------------------------ bounds
\* Number of distinct persons that occur in the enumerated inputs.
MaxPersons == 4
\* Longest enumerated transaction list.
MaxTx == 2
\* Longest enumerated split_by; a list of n transactions has splits of at
\* most MaxSplit \div n shares each.
MaxSplit == 3
\* Share amounts of the enumerated inputs range over -MaxRefund..MaxAmount.
MaxAmount == 3
MaxRefund == 1

\* ------------------------------------------------------------- data types
\* Person(&'static str): the five persons of tests::test_simplify.
PersonNames == <<"A", "B", "C", "D", "E">>

Persons == {PersonNames[k] : k \in 1..Len(PersonNames)}

\* struct Transaction { paid_by, split_by }
Transaction(paid_by, split_by) == [paid_by |-> paid_by, split_by |-> split_by]

\* struct Debt { amount, owing, owed }
Debt(amount, owing, owed) == [amount |-> amount, owing |-> owing, owed |-> owed]

\* The transactions of tests::test_simplify.
TestTransactions ==
    << Transaction("A", << <<"A", 50>>, <<"B", 50>> >>),
       Transaction("B", << <<"A", 25>>, <<"B", 25>> >>),
       Transaction("C", << <<"A", 100>>, <<"B", 150>>, <<"C", 50>> >>),
       Transaction("D", << <<"D", 10>>, <<"E", 10>> >>),
       Transaction("A", << <<"A", 5>>, <<"E", 15>>, <<"C", 20>> >>) >>

\* The debts tests::test_simplify expects.
TestDebts ==
    << Debt(175, "B", "C"), Debt(40, "A", "C"),
       Debt(15, "E", "C"), Debt(10, "E", "D") >>

\* ------------------------------------------------------- enumerated inputs
InputPersons == {PersonNames[k] : k \in 1..MaxPersons}

InputAmounts == (0 - MaxRefund)..MaxAmount

InputShares == InputPersons \X InputAmounts

InputSplits(longest) == UNION {[1..n -> InputShares] : n \in 0..longest}

InputTransactions(longest) ==
    {Transaction(p, s) : p \in InputPersons, s \in InputSplits(longest)}

SplitBound(n) == MaxSplit \div (IF n = 0 THEN 1 ELSE n)

\* Every transaction list within the bounds, and the list of the test.
IsInput(list) ==
    \/ \E n \in 0..MaxTx : list \in [1..n -> InputTransactions(SplitBound(n))]
    \/ list = TestTransactions

\* ---------------------------------------------------------------- helpers
\* i64::abs
Abs(x) == IF x < 0 THEN 0 - x ELSE x

\* Ord::min on two amounts
Min2(x, y) == IF x <= y THEN x ELSE y

\* split_by.iter().map(|(_, amount)| amount).sum()
RECURSIVE SplitTotal(_)
SplitTotal(split) ==
    IF split = << >> THEN 0
    ELSE split[1][2] + SplitTotal(Tail(split))

\* Mutation of EntryAdd: the entry is assigned (=) where the code adds (+=).
EntryAssign(b, person, delta) ==
    IF person \in DOMAIN b
    THEN [b EXCEPT ![person] = delta]
    ELSE b @@ (person :> delta)

\* *balances.entry(person).or_default() += delta
EntryAdd(b, person, delta) ==
    IF person \in DOMAIN b
    THEN [b EXCEPT ![person] = @ + delta]
    ELSE b @@ (person :> delta)

\* for (person, amount) in split_by.iter() { entry(person) -= amount }
RECURSIVE DebitAll(_, _)
DebitAll(b, split) ==
    IF split = << >> THEN b
    ELSE DebitAll(EntryAdd(b, split[1][1], 0 - split[1][2]), Tail(split))

\* Mutation of Credit: the payer is debited the total (-= for +=).
CreditNegated(b, transaction) ==
    EntryAdd(b, transaction.paid_by, 0 - SplitTotal(transaction.split_by))

\* The credit of one transaction: the payer receives the split's total.
Credit(b, transaction) ==
    EntryAdd(b, transaction.paid_by, SplitTotal(transaction.split_by))

\* One pass of the aggregation loop body.
ApplyTransaction(b, transaction) ==
    DebitAll(Credit(b, transaction), transaction.split_by)

\* BTreeMap::insert: a present key keeps its place and takes the new value.
BTreeInsert(m, key, value) ==
    IF key \in DOMAIN m
    THEN [m EXCEPT ![key] = value]
    ELSE m @@ (key :> value)

\* BTreeMap without one key.
BTreeRemove(m, key) == [k \in DOMAIN m \ {key} |-> m[k]]

\* The filter_map of the collect: entries with amount 0 are dropped.
KeepEntry(amount) == amount # 0

\* balances.into_iter().filter_map(..).collect(), the hash map being
\* iterated in the order `order` (a sequence of its keys).
RECURSIVE CollectSorted(_, _, _)
CollectSorted(m, b, order) ==
    IF order = << >> THEN m
    ELSE LET person == order[1]
             amount == b[person]
         IN CollectSorted(IF KeepEntry(amount)
                          THEN BTreeInsert(m, amount, person) ELSE m,
                          b, Tail(order))

\* The orders a HashMap with key set S can be iterated in.
IterationOrders(S) ==
    {o \in [1..Cardinality(S) -> S] : \A x \in S : \E k \in DOMAIN o : o[k] = x}

EmptyMap == [k \in {} |-> 0]

FirstKey(m) == CHOOSE k \in DOMAIN m : \A j \in DOMAIN m : k <= j

LastKey(m) == CHOOSE k \in DOMAIN m : \A j \in DOMAIN m : k >= j

\* Mutations of AfterPopFirst and AfterPopLast: the entry is read
\* (first_key_value, last_key_value) and left in the map.
KeepFirst(m) == m

KeepLast(m) == m

\* The map left by pop_first / pop_last.
AfterPopFirst(m) == BTreeRemove(m, FirstKey(m))

AfterPopLast(m) == BTreeRemove(m, LastKey(m))

\* Mutation of DebtAmount: the two abs() calls are missing.
DebtAmountNoAbs(min_amount, max_amount) == Min2(min_amount, max_amount)

\* let amount = min_amount.abs().min(max_amount.abs())
DebtAmount(min_amount, max_amount) == Min2(Abs(min_amount), Abs(max_amount))

\* Mutation of Reinsert: both branches put the residual back under max_person.
ReinsertMaxOnly(m, min_amount, min_person, max_amount, max_person) ==
    IF Abs(min_amount) # Abs(max_amount)
    THEN BTreeInsert(m, min_amount + max_amount, max_person)
    ELSE m

\* The two branches that put the residual back.
Reinsert(m, min_amount, min_person, max_amount, max_person) ==
    IF Abs(min_amount) > Abs(max_amount)
    THEN BTreeInsert(m, min_amount + max_amount, min_person)
    ELSE IF Abs(max_amount) > Abs(min_amount)
         THEN BTreeInsert(m, min_amount + max_amount, max_person)
         ELSE m

\* One iteration of the settlement loop: the map it leaves and its debt.
SettleOnce(m) ==
    LET min_amount == FirstKey(m)
        min_person == m[min_amount]
        m1         == AfterPopFirst(m)
        max_amount == LastKey(m1)
        max_person == m1[max_amount]
        m2         == AfterPopLast(m1)
    IN [sorted |-> Reinsert(m2, min_amount, min_person, max_amount, max_person),
        debt   |-> Debt(DebtAmount(min_amount, max_amount), min_person, max_person)]

\* while sorted_balances.len() > 1
LoopGuard(m) == Cardinality(DOMAIN m) > 1

\* The whole settlement loop as a function of the sorted map it starts from.
RECURSIVE SettleAll(_, _)
SettleAll(m, acc) ==
    IF LoopGuard(m)
    THEN SettleAll(SettleOnce(m).sorted, Append(acc, SettleOnce(m).debt))
    ELSE acc

\* ------------------------------------------------------------------ state
VARIABLES
    transactions,      \* the argument of simplify
    pc,                \* "aggregate", "settle" or "done"
    processed,         \* transactions the aggregation loop has consumed
    balances,          \* HashMap<Person, CurrencyUnit>
    sorted_balances,   \* BTreeMap<CurrencyUnit, Person>
    debts              \* Vec<Debt>

vars == <<transactions, pc, processed, balances, sorted_balances, debts>>

Init ==
    /\ IsInput(transactions)
    /\ pc = "aggregate"
    /\ processed = 0
    /\ balances = EmptyMap
    /\ sorted_balances = EmptyMap
    /\ debts = << >>

\* One iteration of `for transaction in transactions.iter()`.
Aggregate ==
    /\ pc = "aggregate"
    /\ processed < Len(transactions)
    /\ balances' = ApplyTransaction(balances, transactions[processed + 1])
    /\ processed' = processed + 1
    /\ UNCHANGED <<transactions, pc, sorted_balances, debts>>

\* The aggregation loop is over: build the sorted map.  The HashMap is
\* iterated in an order the program does not control.
Collect ==
    /\ pc = "aggregate"
    /\ processed = Len(transactions)
    /\ \E order \in IterationOrders(DOMAIN balances) :
           sorted_balances' = CollectSorted(EmptyMap, balances, order)
    /\ pc' = "settle"
    /\ UNCHANGED <<transactions, processed, balances, debts>>

\* One iteration of the settlement loop.
Settle ==
    /\ pc = "settle"
    /\ LoopGuard(sorted_balances)
    /\ sorted_balances' = SettleOnce(sorted_balances).sorted
    /\ debts' = Append(debts, SettleOnce(sorted_balances).debt)
    /\ UNCHANGED <<transactions, pc, processed, balances>>

\* The loop guard fails: simplify returns debts.
Return ==
    /\ pc = "settle"
    /\ ~LoopGuard(sorted_balances)
    /\ pc' = "done"
    /\ UNCHANGED <<transactions, processed, balances, sorted_balances, debts>>

Next == Aggregate \/ Collect \/ Settle \/ Return

Spec == Init /\ [][Next]_vars

\* ------------------------------------------------- definitions of the claims
RECURSIVE SumTo(_, _)
SumTo(f, n) == IF n = 0 THEN 0 ELSE f[n] + SumTo(f, n - 1)

\* The sum of a sequence of integers.
SumSeq(f) == SumTo(f, Len(f))

\* The sum of the shares of `split` that belong to a person of S.
SharesOf(split, S) ==
    SumSeq([k \in 1..Len(split) |-> IF split[k][1] \in S THEN split[k][2] ELSE 0])

\* bal(p): the share totals of the transactions p paid, less p's own shares.
NetBalance(list, p) ==
    SumSeq([k \in 1..Len(list) |->
               IF list[k].paid_by = p THEN SharesOf(list[k].split_by, Persons) ELSE 0])
    - SumSeq([k \in 1..Len(list) |-> SharesOf(list[k].split_by, {p})])

\* What the debts ds add to p's balance: p's payments less p's receipts.
Repaid(ds, p) ==
    SumSeq([k \in 1..Len(ds) |-> IF ds[k].owing = p THEN ds[k].amount ELSE 0])
    - SumSeq([k \in 1..Len(ds) |-> IF ds[k].owed = p THEN ds[k].amount ELSE 0])

RECURSIVE SumOver(_, _)
SumOver(b, S) ==
    IF S = {} THEN 0
    ELSE LET x == CHOOSE y \in S : TRUE IN b[x] + SumOver(b, S \ {x})

\* The number of persons whose aggregated balance is not zero.
NonZeroCount == Cardinality({p \in DOMAIN balances : balances[p] # 0})

Size(m) == Cardinality(DOMAIN m)

HasNegativeShare(list) ==
    \E k \in 1..Len(list) : \E j \in 1..Len(list[k].split_by) :
        list[k].split_by[j][2] < 0

HasOwnShare(list) ==
    \E k \in 1..Len(list) : \E j \in 1..Len(list[k].split_by) :
        list[k].split_by[j][1] = list[k].paid_by

\* C1: once simplify has returned, every person's net balance bal(p) plus
\* the debts p pays less the debts p receives is exactly 0.
C1_AllSettled ==
    pc = "done" =>
        \A p \in Persons : NetBalance(transactions, p) + Repaid(debts, p) = 0

\* C2: for the five transactions of the test, simplify returns exactly
\* [Debt(175, B, C), Debt(40, A, C), Debt(15, E, C), Debt(10, E, D)].
C2_TestDebts ==
    (transactions = TestTransactions /\ pc = "done") => debts = TestDebts

\* The test's input has run to the return, with its four debts emitted.
C2_Witness ==
    transactions = TestTransactions /\ pc = "done" /\ Len(debts) = 4

\* C3 as stated: with n the number of nonzero balances, the loop has run
\* at most n-1 iterations and emitted at most n-1 debts when it exits.
C3_Original == pc = "done" => Len(debts) <= NonZeroCount - 1

\* The most iterations the loop runs for the aggregated balances.
IterationBound == IF NonZeroCount = 0 THEN 0 ELSE NonZeroCount - 1

C3_Step ==
    /\ pc' \in {"settle", "done"} => Len(debts') <= IterationBound'
    /\ (pc = "settle" /\ debts' # debts) =>
           /\ Len(debts') = Len(debts) + 1
           /\ Size(sorted_balances') < Size(sorted_balances)

\* C3 (amended): every iteration of the settlement loop emits one debt and
\* strictly reduces the number of entries of the sorted map, and the debts
\* emitted (one per iteration) never exceed n-1 when n >= 1, and 0 when n = 0.
C3_Bounded == [][C3_Step]_vars

\* The loop has exited after exactly n-1 iterations, for n >= 3.
C3_Witness ==
    pc = "done" /\ NonZeroCount >= 3 /\ Len(debts) = NonZeroCount - 1

\* C4: no debt has owing = owed: the persons popped as minimum and as
\* maximum in one iteration differ.
C4_NoSelfDebt ==
    \A k \in 1..Len(debts) : debts[k].owing # debts[k].owed

\* A person who was put back with a residual takes part in a later debt.
C4_Witness ==
    \E j, k \in 1..Len(debts) :
        /\ j < k
        /\ {debts[j].owing, debts[j].owed} \cap {debts[k].owing, debts[k].owed} # {}

\* C5: every debt has amount > 0.
C5_Positive ==
    \A k \in 1..Len(debts) : debts[k].amount > 0

\* simplify has returned two or more debts for an input with a negative share.
C5_Witness ==
    pc = "done" /\ Len(debts) >= 2 /\ HasNegativeShare(transactions)

\* C6: the balances of the hash map sum to exactly 0 after every
\* transaction the aggregation has processed (and so when it ends).
C6_Conservation == SumOver(balances, DOMAIN balances) = 0

\* The aggregation has ended on an input with a negative share and a payer
\* in their own split, and has left a nonzero balance.
C6_Witness ==
    /\ pc = "aggregate"
    /\ processed = Len(transactions)
    /\ processed >= 1
    /\ HasNegativeShare(transactions)
    /\ HasOwnShare(transactions)
    /\ NonZeroCount >= 3

\* C7: what simplify returns does not depend on the order the hash map of
\* balances is iterated in: every order yields the debts that were returned.
C7_Deterministic ==
    pc = "done" =>
        \A order \in IterationOrders(DOMAIN balances) :
            SettleAll(CollectSorted(EmptyMap, balances, order), << >>) = debts

\* The balances the code aggregates for the transactions of the test.
TestBalances ==
    ("A" :> (0 - 40)) @@ ("B" :> (0 - 175)) @@ ("C" :> 230)
        @@ ("D" :> 10) @@ ("E" :> (0 - 25))

\* The balances C8 states for the transactions of the test.
StatedBalances ==
    ("A" :> 20) @@ ("B" :> (0 - 175)) @@ ("C" :> 170)
        @@ ("D" :> 10) @@ ("E" :> (0 - 25))

\* C8 as stated: the five transactions of the test aggregate to
\* A=+20, B=-175, C=+170, D=+10, E=-25.
C8_Original ==
    (transactions = TestTransactions /\ processed = Len(transactions))
        => balances = StatedBalances

\* C8 (amended): the five transactions of the test aggregate to
\* A=-40, B=-175, C=+230, D=+10, E=-25.
C8_TestBalances ==
    (transactions = TestTransactions /\ processed = Len(transactions))
        => balances = TestBalances

\* The aggregation of the test's input has just ended.
C8_Witness ==
    transactions = TestTransactions /\ pc = "aggregate" /\ processed = 5

\* C9: when the settlement loop exits, the sorted map is empty.
C9_NoLeftover == pc = "done" => DOMAIN sorted_balances = {}

\* C10: at every iteration of the settlement loop the minimum popped is
\* strictly negative and the maximum popped strictly positive, and the
\* residual min+max has the sign of the side of larger magnitude.
C10_Signs ==
    (pc = "settle" /\ LoopGuard(sorted_balances)) =>
        LET min_amount == FirstKey(sorted_balances)
            max_amount == LastKey(AfterPopFirst(sorted_balances))
        IN /\ min_amount < 0
           /\ max_amount > 0
           /\ Abs(min_amount) > Abs(max_amount) => min_amount + max_amount < 0
           /\ Abs(max_amount) > Abs(min_amount) => min_amount + max_amount > 0
====
